---- MODULE Spec2Model ----
(***************************************************************************)
(* Measurement cycle controller of thermify (src/processing.py).          *)
(*                                                                         *)
(* Two threads of control are modelled: the Tk UI thread (button          *)
(* handlers and the callbacks queued with root.after) and the worker      *)
(* threads created by _start_thread, which run run_full_cycle_logic.      *)
(* A step of either thread is one blocking call (an instrument call, a    *)
(* sleep, a Tk call made across threads) together with the code that      *)
(* follows it up to the next blocking call.                               *)
(***************************************************************************)
EXTENDS Integers, Sequences, FiniteSets, TLC

\* ---------------------------------------------------------------- bounds
\* Largest number of samples a scope read or a reference file carries.
MaxLen == 2
\* Number of worker threads the model can hold at once.
MaxWorkers == 2

\* ------------------------------------------------------ program constants
NUM_AVERAGES == 10
\* Generator driver calls made by _configure_koolertron: waveform, duty and
\* amplitude, each on two channels.
NumKoolCmds == 6

KEITHLEY_OUTPUT_ON == "ON"
KEITHLEY_OUTPUT_OFF == "OFF"

\* Python's None for values that are otherwise lengths.
NoneVal == -1

Workers == 1..MaxWorkers
Lens == 0..MaxLen

VARIABLES
    rm,             \* self.rm is set
    scope,          \* self.scope is set
    kool,           \* self.kool is set
    keith,          \* self.keith is set
    koolResponding, \* what isConnected() returned when self.kool was created
    reference_data, \* NoneVal, or the number of samples of the loaded reference
    btn_run,        \* state of the run button: "normal" or "disabled"
    status_text,    \* self.status_text
    afterQueue,     \* callbacks posted with root.after(0, ...), in order
    ui,             \* where the UI thread is: in the event loop or inside a handler
    worker,         \* per worker thread: position in run_full_cycle_logic and locals
    events,         \* instrument calls made by the workers since the last cycle start
    failure,        \* first step of the current/last cycle that failed, "none" if none did
    outcome,        \* where the code took the current/last cycle: "none" while it runs
    ioFailed,       \* an instrument call raised during the current/last cycle
    keithAtStart,   \* self.keith was set when the current/last cycle started
    failedRead,     \* index (1-based) of the scope read that failed in its pass, 0 if none
    nreq,           \* parity of the number of run requests (clicks on the run button)
    request,        \* what the last run request led to
    math,           \* the numeric pipeline applied to one input: input, code run, result
    v5              \* appv5.py: its handles and its step threads

vars == <<rm, scope, kool, keith, koolResponding, reference_data, btn_run,
          status_text, afterQueue, ui, worker, events, failure, outcome, ioFailed,
          keithAtStart, failedRead, nreq, request, math, v5>>

\* The controller's variables: everything but the numeric pipeline's.
ctlVars == <<rm, scope, kool, keith, koolResponding, reference_data, btn_run,
             status_text, afterQueue, ui, worker, events, failure, outcome, ioFailed,
             keithAtStart, failedRead, nreq, request>>

handles == <<rm, scope, kool, keith, koolResponding>>
cycleHist == <<events, failure, outcome, ioFailed, keithAtStart, failedRead>>

\* ---------------------------------------------------------------- helpers
Min2(a, b) == IF a <= b THEN a ELSE b

\* min(len(a) for a in all_v) kept incrementally; m = NoneVal before the first read
MinLen(m, v) == IF m = NoneVal THEN v ELSE Min2(m, v)

\* No numeric input is being worked on.
MathIdle == [kind |-> "idle", by |-> "none", inp |-> <<>>, res |-> <<>>]

\* appv5.py step threads
MaxThreads == 2
Threads == 1..MaxThreads

\* A step thread that is not running.
IdleThread ==
    [pc |-> "idle", step |-> 0, i |-> 0, calls |-> 0, at |-> "none",
     lastKeith |-> "none"]

\* appv5.py after __init__: no handle, no thread.  sinceDisconnect: a
\* disconnect has completed and connect_devices was not called since;
\* touched: an instrument was opened or commanded since that disconnect;
\* clash: a step thread commanded an instrument while another was running.
V5Init ==
    [rm |-> FALSE, scope |-> FALSE, kool |-> FALSE, keith |-> FALSE,
     ui |-> "loop", thread |-> [t \in Threads |-> IdleThread],
     sinceDisconnect |-> FALSE, touched |-> FALSE, clash |-> FALSE]

\* sent: generator calls made; i: reads made in the pass; min_len: shortest
\* read of the pass, then the READ average's length; base: the BASE average's.
IdleWorker ==
    [pc |-> "idle", sent |-> 0, i |-> 0, min_len |-> NoneVal, base |-> NoneVal]

FreeWorkers == {w \in Workers : worker[w].pc = "idle"}
ActiveWorkers == {w \in Workers : worker[w].pc # "idle"}

RECURSIVE Repeat(_, _)
Repeat(e, n) == IF n = 0 THEN <<>> ELSE <<e>> \o Repeat(e, n - 1)

Count(s, e) == Cardinality({k \in 1..Len(s) : s[k] = e})

EnableCb == [cb |-> "enable", base |-> 0, read |-> 0]
ProcessCb(b, r) == [cb |-> "process", base |-> b, read |-> r]

\* The UI thread is in Tk's event loop, or inside the handler or callback
\* named by ui.pc, blocked in the call it is about to return from.
UiLoop == [pc |-> "loop", base |-> 0, read |-> 0]
UiAt(pc) == [pc |-> pc, base |-> 0, read |-> 0]

\* ------------------------------------------------------------------- Init
CtlInit ==
    /\ rm = FALSE
    /\ scope = FALSE
    /\ kool = FALSE
    /\ keith = FALSE
    /\ koolResponding = FALSE
    /\ reference_data = NoneVal
    /\ btn_run = "normal"
    /\ status_text = "Not connected"
    /\ afterQueue = <<>>
    /\ ui = UiLoop
    /\ worker = [w \in Workers |-> IdleWorker]
    /\ events = <<>>
    /\ failure = "none"
    /\ outcome = "none"
    /\ ioFailed = FALSE
    /\ keithAtStart = FALSE
    /\ failedRead = 0
    /\ nreq = 0
    /\ request = "none"

Init == CtlInit /\ math = MathIdle /\ v5 = V5Init

\* ------------------------------------------------------- UI thread: connect
\* connect_devices raised: the except clause logs and shows the error; the
\* status is not touched.
ConnectRaised == ui' = UiLoop /\ UNCHANGED status_text

\* The end of the try block of connect_devices.
ConnectSucceeded == ui' = UiLoop /\ status_text' = "Hardware Connected"

\* connect_devices enters a blocking call.
ConnectBlocks(pc) == ui' = UiAt(pc) /\ UNCHANGED status_text

\* The Keithley part is run when an address is given and no handle is
\* cached; otherwise connect_devices is through.
KeithleyPart ==
    \E kaddr \in BOOLEAN :
        IF kaddr /\ ~keith THEN ConnectBlocks("keith_open")
        ELSE ConnectSucceeded

\* The generator part is skipped when a handle is cached.
GeneratorPart ==
    IF ~kool THEN ConnectBlocks("kool_ctor") ELSE KeithleyPart

\* The scope part is skipped when a handle is cached; an empty address
\* field raises before anything is opened.
ScopePart ==
    IF ~scope
    THEN \E addr \in BOOLEAN :
            IF addr THEN ConnectBlocks("scope_open") ELSE ConnectRaised
    ELSE GeneratorPart

\* A click on the connect button: connect_devices up to its first blocking
\* instrument call.
connect_devices ==
    /\ ui.pc = "loop"
    /\ \E rmOk \in (IF rm THEN {TRUE} ELSE BOOLEAN) :
        /\ rm' = rmOk
        /\ IF rmOk THEN ScopePart ELSE ConnectRaised
    /\ UNCHANGED <<scope, kool, koolResponding, keith, reference_data,
                   btn_run, afterQueue, worker, cycleHist, nreq, request,
                   math, v5>>

\* self.scope = self.rm.open_resource(addr): the handle is stored as soon as
\* the call returns; the *IDN? query follows.
connect_open_scope ==
    /\ ui.pc = "scope_open"
    /\ \E ok \in BOOLEAN :
        /\ scope' = ok
        /\ IF ok THEN ConnectBlocks("scope_idn") ELSE ConnectRaised
    /\ UNCHANGED <<rm, kool, koolResponding, keith, reference_data, btn_run,
                   afterQueue, worker, cycleHist, nreq, request, math, v5>>

\* self.scope.query('*IDN?') returns or raises.
connect_scope_idn ==
    /\ ui.pc = "scope_idn"
    /\ \E ok \in BOOLEAN : IF ok THEN GeneratorPart ELSE ConnectRaised
    /\ UNCHANGED <<handles, reference_data, btn_run, afterQueue, worker,
                   cycleHist, nreq, request, math, v5>>

\* self.kool = KoolertronSig(port): stored before isConnected() is asked.
connect_open_kool ==
    /\ ui.pc = "kool_ctor"
    /\ \E ok \in BOOLEAN :
        /\ kool' = ok
        /\ IF ok THEN ConnectBlocks("kool_check") ELSE ConnectRaised
    /\ UNCHANGED <<rm, scope, koolResponding, keith, reference_data, btn_run,
                   afterQueue, worker, cycleHist, nreq, request, math, v5>>

\* `if not self.kool.isConnected(): raise`; the handle stays stored.
connect_kool_check ==
    /\ ui.pc = "kool_check"
    /\ \E ok \in BOOLEAN :
        /\ koolResponding' = ok
        /\ IF ok THEN KeithleyPart ELSE ConnectRaised
    /\ UNCHANGED <<rm, scope, kool, keith, reference_data, btn_run,
                   afterQueue, worker, cycleHist, nreq, request, math, v5>>

\* self.keith = self.rm.open_resource(kaddr): an exception is caught inside
\* connect_devices, logged as a warning, and the connect goes on.
connect_open_keith ==
    /\ ui.pc = "keith_open"
    /\ \E ok \in BOOLEAN :
        /\ keith' = ok
        /\ IF ok THEN ConnectBlocks("keith_idn") ELSE ConnectSucceeded
    /\ UNCHANGED <<rm, scope, kool, koolResponding, reference_data, btn_run,
                   afterQueue, worker, cycleHist, nreq, request, math, v5>>

\* self.keith.query('*IDN?') returns or raises; either way the handle stays
\* and the status is set.
connect_keith_idn ==
    /\ ui.pc = "keith_idn"
    /\ ConnectSucceeded
    /\ UNCHANGED <<handles, reference_data, btn_run, afterQueue, worker,
                   cycleHist, nreq, request, math, v5>>

\* connect_devices goes on after a blocking call.
ConnectStage ==
    \/ connect_open_scope
    \/ connect_scope_idn
    \/ connect_open_kool
    \/ connect_kool_check
    \/ connect_open_keith
    \/ connect_keith_idn

\* ------------------------------------------------ UI thread: load reference
load_reference ==
    /\ ui.pc = "loop"
    /\ \E readOk \in BOOLEAN, n \in Lens :
        /\ reference_data' = IF readOk THEN n ELSE reference_data
        /\ UNCHANGED <<handles, btn_run, status_text, afterQueue, ui, worker,
                       cycleHist, nreq, request, math, v5>>

\* ------------------------------------------------- UI thread: run request
\* What start_full_cycle_thread answers: the two guards, in the code's order.
StartCheck ==
    IF reference_data = NoneVal THEN "no_reference"
    ELSE IF ~scope \/ ~kool THEN "not_connected"
    ELSE "started"

\* Mutant: the run button is left enabled when a cycle starts.
BtnStateOnStart_LeftEnabled == "normal"

\* self.btn_run.config(state=...) in start_full_cycle_thread
BtnStateOnStart == "disabled"

\* _start_thread(self.run_full_cycle_logic): a new worker at the top of the try block
start_thread(w) ==
    worker' = [worker EXCEPT ![w] = [IdleWorker EXCEPT !.pc = "configure"]]

start_full_cycle_thread ==
    /\ request' = StartCheck
    /\ IF StartCheck = "started"
       THEN /\ FreeWorkers # {}
            /\ btn_run' = BtnStateOnStart
            /\ start_thread(CHOOSE w \in FreeWorkers : \A u \in FreeWorkers : w <= u)
            /\ events' = <<>>
            /\ failure' = "none"
            /\ outcome' = "none"
            /\ ioFailed' = FALSE
            /\ keithAtStart' = keith
            /\ failedRead' = 0
       ELSE UNCHANGED <<btn_run, worker, cycleHist>>
    /\ UNCHANGED <<handles, reference_data, status_text, afterQueue, ui>>

\* A click on the run button. Tk calls the button's command only while the
\* button is not disabled.
ClickRun ==
    /\ ui.pc = "loop"
    /\ nreq' = 1 - nreq
    /\ UNCHANGED <<math, v5>>
    /\ IF btn_run = "normal"
       THEN start_full_cycle_thread
       ELSE /\ request' = "ignored"
            /\ UNCHANGED <<handles, reference_data, btn_run, status_text,
                           afterQueue, ui, worker, cycleHist>>

\* ------------------------------------------------------------ worker thread
\* A worker step is one blocking call (an instrument call, a sleep, or a Tk
\* call made from the worker thread) with the code that follows it up to the
\* next one.  A Tk call made from the worker thread (status_text.set, log,
\* root.after) is not held back by a handler running on the UI thread: Tk
\* builds differ in whether such a call waits for the event loop, and taking
\* it as free covers both.  What a worker step leaves alone:
workerFrame == <<handles, reference_data, btn_run, ui, keithAtStart, nreq,
                 request, math, v5>>

\* Mutant: the finally clause posts nothing.
FinallyCallbacks_Missing == <<>>

\* The callback the finally clause of run_full_cycle_logic posts.
FinallyCallbacks == <<EnableCb>>

\* The first failure of a cycle is the one remembered.
FirstFailure(kind) == IF failure = "none" THEN kind ELSE failure

\* Mutant: the result of _configure_koolertron is not looked at.
ConfigureFailed_Ignored(ok) == FALSE

\* `if not self._configure_koolertron(on=True): raise`
ConfigureFailed(ok) == ~ok

\* Step 1 of the cycle, one generator driver call at a time.  The UI
\* variables are read before the first call; reading one can raise.  An
\* exception makes _configure_koolertron log and return False, and
\* run_full_cycle_logic raises into its except clause.
Configure(w) ==
    /\ worker[w].pc = "configure"
    /\ \E res \in (IF worker[w].sent = 0 THEN {"vars_raise"} ELSE {})
                    \cup {"ok", "call_raises"} :
        LET sent == IF res = "vars_raise" THEN worker[w].sent
                    ELSE worker[w].sent + 1
            returns == res # "ok" \/ sent = NumKoolCmds
        IN  /\ events' = IF res = "vars_raise" THEN events
                         ELSE Append(events, "KOOL")
            /\ ioFailed' = (ioFailed \/ res = "call_raises")
            /\ failure' = IF res = "ok" THEN failure ELSE FirstFailure("config")
            /\ worker' = [worker EXCEPT ![w] =
                  IF ~returns THEN [@ EXCEPT !.sent = sent]
                  ELSE IF ConfigureFailed(res = "ok")
                  THEN [@ EXCEPT !.sent = sent, !.pc = "except"]
                  ELSE [@ EXCEPT !.sent = sent, !.pc = "keith_off"]]
    /\ UNCHANGED <<workerFrame, status_text, afterQueue, outcome, failedRead>>

\* Mutant: the two output commands are swapped.
KeithleyCmd_Swapped(on) == IF on THEN KEITHLEY_OUTPUT_OFF ELSE KEITHLEY_OUTPUT_ON

\* cmd = KEITHLEY_OUTPUT_ON if on else KEITHLEY_OUTPUT_OFF
KeithleyCmd(on) == IF on THEN KEITHLEY_OUTPUT_ON ELSE KEITHLEY_OUTPUT_OFF

\* Mutant: the command is written whether or not there is a handle.
KeithleyWrites_NoHandle(handle) == TRUE

\* `if not self.keith: return`
KeithleyWrites(handle) == handle

\* _keithley_set_output: nothing without a handle; otherwise one write, whose
\* exception is logged and not raised again.  The handle is the one stored
\* when the call is made, whatever connect_devices has done with it since.
keithley_set_output(on, ok) ==
    /\ events' = IF KeithleyWrites(keith) THEN Append(events, KeithleyCmd(on))
                 ELSE events
    /\ ioFailed' = (ioFailed \/ (KeithleyWrites(keith) /\ ~ok))

\* Step 2: Keithley OFF, then the settling sleep.
SetOutputBase(w) ==
    /\ worker[w].pc = "keith_off"
    /\ \E ok \in BOOLEAN : keithley_set_output(FALSE, ok)
    /\ worker' = [worker EXCEPT ![w].pc = "begin_base"]
    /\ UNCHANGED <<workerFrame, status_text, afterQueue, failure, outcome,
                   failedRead>>

\* Step 3: Keithley ON, then the settling sleep.
SetOutputRead(w) ==
    /\ worker[w].pc = "keith_on"
    /\ \E ok \in BOOLEAN : keithley_set_output(TRUE, ok)
    /\ worker' = [worker EXCEPT ![w].pc = "begin_read"]
    /\ UNCHANGED <<workerFrame, status_text, afterQueue, failure, outcome,
                   failedRead>>

\* f"Capturing {label} ({NUM_AVERAGES} avg)..."
CaptureStatus(label) ==
    IF label = "BASE" THEN "Capturing BASE (10 avg)..."
    ELSE "Capturing READ (10 avg)..."

\* The first statement of _capture_averaged: the worker thread sets the
\* status before the first read.
CaptureBegin(w) ==
    /\ worker[w].pc \in {"begin_base", "begin_read"}
    /\ status_text' = CaptureStatus(IF worker[w].pc = "begin_base"
                                    THEN "BASE" ELSE "READ")
    /\ worker' = [worker EXCEPT ![w].pc = IF worker[w].pc = "begin_base"
                                          THEN "capture_base"
                                          ELSE "capture_read"]
    /\ UNCHANGED <<workerFrame, afterQueue, cycleHist>>

\* Mutant: the capture loop goes on after a read that yielded nothing.
ReadYieldedNothing_Ignored(v) == FALSE

\* Mutant: the cycle goes on after a capture that returned nothing.
CaptureFailed_Ignored(volts) == FALSE

\* `if v is None: return None, None` in _capture_averaged
ReadYieldedNothing(v) == v = NoneVal

\* `if base_volts is None: raise` / `if read_volts is None: raise`
CaptureFailed(volts) == volts = NoneVal

\* One _read_scope_once call of _capture_averaged, in the BASE or the READ
\* pass. v is the number of samples read, NoneVal when the read raised.  The
\* NUM_AVERAGES-th read also ends the pass: the average has the minimum
\* length, and run_full_cycle_logic goes on to its next step.  A pass that
\* returned nothing makes run_full_cycle_logic raise into its except clause.
ReadScope(w) ==
    /\ worker[w].pc \in {"capture_base", "capture_read"}
    /\ \E v \in Lens \cup {NoneVal} :
        LET me == worker[w]
            inBase == me.pc = "capture_base"
            m == MinLen(me.min_len, v)
            passEnds == ReadYieldedNothing(v) \/ me.i + 1 = NUM_AVERAGES
            volts == IF ReadYieldedNothing(v) THEN NoneVal ELSE m
        IN  /\ events' = Append(events, IF inBase THEN "B" ELSE "R")
            /\ ioFailed' = (ioFailed \/ v = NoneVal)
            /\ failure' = IF v = NoneVal
                          THEN FirstFailure(IF inBase THEN "base" ELSE "read")
                          ELSE failure
            /\ failedRead' = IF v = NoneVal /\ failedRead = 0
                             THEN me.i + 1 ELSE failedRead
            /\ worker' = [worker EXCEPT ![w] =
                  IF ~passEnds THEN [me EXCEPT !.i = me.i + 1, !.min_len = m]
                  ELSE IF CaptureFailed(volts)
                  THEN [me EXCEPT !.pc = "except", !.i = 0,
                                  !.min_len = NoneVal]
                  ELSE IF inBase
                  THEN [me EXCEPT !.pc = "keith_on", !.i = 0,
                                  !.min_len = NoneVal, !.base = volts]
                  ELSE [me EXCEPT !.pc = "cleanup", !.i = 0,
                                  !.min_len = volts]]
    /\ UNCHANGED <<workerFrame, status_text, afterQueue, outcome>>

\* Mutant: the cleanup call switches the output on.
CleanupOn_True == TRUE

\* The argument of the cleanup call self._keithley_set_output(False)
CleanupOn == FALSE

\* Step 4: Keithley OFF after the READ capture.
Cleanup(w) ==
    /\ worker[w].pc = "cleanup"
    /\ \E ok \in BOOLEAN : keithley_set_output(CleanupOn, ok)
    /\ worker' = [worker EXCEPT ![w].pc = "post_process"]
    /\ UNCHANGED <<workerFrame, status_text, afterQueue, failure, outcome,
                   failedRead>>

\* Step 5, the last statement of the try block: process_and_display is
\* posted to the UI thread with the two averaged waveforms.
PostProcess(w) ==
    /\ worker[w].pc = "post_process"
    /\ afterQueue' = Append(afterQueue,
                            ProcessCb(worker[w].base, worker[w].min_len))
    /\ outcome' = "handed_off"
    /\ worker' = [worker EXCEPT ![w].pc = "finally"]
    /\ UNCHANGED <<workerFrame, status_text, events, failure, ioFailed,
                   failedRead>>

\* except Exception: the worker thread logs and sets the status itself.
Except(w) ==
    /\ worker[w].pc = "except"
    /\ status_text' = "Error during cycle"
    /\ outcome' = "error"
    /\ worker' = [worker EXCEPT ![w].pc = "finally"]
    /\ UNCHANGED <<workerFrame, afterQueue, events, failure, ioFailed,
                   failedRead>>

\* finally: the re-enabling of the run button is posted; the thread ends.
Finally(w) ==
    /\ worker[w].pc = "finally"
    /\ afterQueue' = afterQueue \o FinallyCallbacks
    /\ worker' = [worker EXCEPT ![w] = IdleWorker]
    /\ UNCHANGED <<workerFrame, status_text, cycleHist>>

\* ------------------------------------------- UI thread: posted callbacks
\* n = min(len(base), len(read), len(self.reference_data))
CommonLen(base, read) == Min2(Min2(base, read), reference_data)

\* process_and_display raises on an empty series (np.max of nothing) and on a
\* series of one point (x_vals[1]); plotting and saving the image can raise
\* whatever the data.
ProcessRaises(n, guiOk) == n < 2 \/ ~guiOk

\* The CSV is written after the spectrum was computed; an exception while
\* writing it is caught inside process_and_display, logged as "CSV Save
\* Error", and the function goes on to show the results.
CsvSaveFailed(n, csvOk) == n >= 2 /\ ~csvOk

\* process_and_display from its second statement on: the arithmetic, the
\* files, the results window and the final status; or the exception that
\* ends it, which Tk reports while the event loop goes on.
process_and_display ==
    /\ ui.pc = "process"
    /\ \E csvOk, guiOk \in BOOLEAN :
        LET n == CommonLen(ui.base, ui.read)
            raises == ProcessRaises(n, guiOk)
            stepFailed == raises \/ CsvSaveFailed(n, csvOk)
        IN  /\ status_text' = IF raises THEN status_text
                              ELSE "Cycle Complete. Results shown."
            /\ outcome' = IF raises THEN "processing_failed" ELSE "done"
            /\ failure' = IF stepFailed THEN FirstFailure("processing") ELSE failure
    /\ ui' = UiLoop
    /\ UNCHANGED <<handles, reference_data, btn_run, afterQueue, worker,
                   events, ioFailed, keithAtStart, failedRead, nreq, request,
                   math, v5>>

\* Mutant: the event loop runs the callback posted last.
CallbackToRun_Newest(queue) == Len(queue)

\* Tk runs callbacks posted for the same time in posting order: the place in
\* the queue of the one the event loop runs next.
CallbackToRun(queue) == 1

RemoveAt(queue, k) == SubSeq(queue, 1, k - 1) \o SubSeq(queue, k + 1, Len(queue))

\* The Tk event loop runs a posted callback: the button's re-enabling
\* (lambda: self.btn_run.config(state="normal")), or process_and_display,
\* whose first statement sets the status.
RunCallback ==
    /\ ui.pc = "loop"
    /\ afterQueue # <<>>
    /\ LET k == CallbackToRun(afterQueue)
           cb == afterQueue[k]
       IN  /\ afterQueue' = RemoveAt(afterQueue, k)
           /\ IF cb.cb = "process"
              THEN /\ status_text' = "Processing Data..."
                   /\ ui' = [pc |-> "process", base |-> cb.base,
                             read |-> cb.read]
                   /\ UNCHANGED btn_run
              ELSE /\ btn_run' = "normal"
                   /\ UNCHANGED <<status_text, ui>>
    /\ UNCHANGED <<handles, reference_data, worker, cycleHist, nreq, request,
                   math, v5>>

\* ------------------------------------------------------------ specification
WorkerStep(w) ==
    \/ Configure(w)
    \/ SetOutputBase(w)
    \/ CaptureBegin(w)
    \/ ReadScope(w)
    \/ SetOutputRead(w)
    \/ Cleanup(w)
    \/ PostProcess(w)
    \/ Except(w)
    \/ Finally(w)

Next ==
    \/ connect_devices
    \/ ConnectStage
    \/ load_reference
    \/ ClickRun
    \/ RunCallback
    \/ process_and_display
    \/ \E w \in Workers : WorkerStep(w)

Spec == Init /\ [][Next]_vars

\* The Tk event loop serves every posted callback however often the user
\* clicks, a blocking call returns (the instruments are opened with
\* timeouts), a callback that runs ends, and a started thread keeps running
\* until its function returns.
FairSpec ==
    /\ Spec
    /\ SF_vars(RunCallback)
    /\ WF_vars(process_and_display)
    /\ WF_vars(ConnectStage)
    /\ \A w \in Workers : WF_vars(WorkerStep(w))

TypeOK ==
    /\ rm \in BOOLEAN /\ scope \in BOOLEAN /\ kool \in BOOLEAN
    /\ keith \in BOOLEAN /\ koolResponding \in BOOLEAN
    /\ reference_data \in Lens \cup {NoneVal}
    /\ btn_run \in {"normal", "disabled"}
    /\ ui.pc \in {"loop", "scope_open", "scope_idn", "kool_ctor", "kool_check",
                  "keith_open", "keith_idn", "process"}
    /\ \A w \in Workers :
        /\ worker[w].pc \in {"idle", "configure", "keith_off", "begin_base",
                             "capture_base", "keith_on", "begin_read",
                             "capture_read", "cleanup", "post_process",
                             "except", "finally"}
        /\ worker[w].i \in 0..(NUM_AVERAGES - 1)
        /\ worker[w].sent \in 0..NumKoolCmds
    /\ Len(events) <= NumKoolCmds + 3 + 2 * NUM_AVERAGES
    /\ Len(afterQueue) <= 2
    /\ failure \in {"none", "config", "base", "read", "processing"}
    /\ outcome \in {"none", "error", "handed_off", "processing_failed", "done"}
    /\ nreq \in 0..1

\* ====================================================================
\* Properties
\* ====================================================================
IsPrefix(s, t) == Len(s) <= Len(t) /\ \A k \in 1..Len(s) : s[k] = t[k]

IsKeithCmd(e) == e \in {KEITHLEY_OUTPUT_ON, KEITHLEY_OUTPUT_OFF}

\* The output commands of the cycle, in the order they were written.
KeithCmds == SelectSeq(events, IsKeithCmd)

LastKeithCmd == KeithCmds[Len(KeithCmds)]

ProcessPosted == \E k \in 1..Len(afterQueue) : afterQueue[k].cb = "process"

\* process_and_display is running on the UI thread.
Processing == ui.pc = "process"

\* A cycle is between its start and its terminal state: its worker runs, or
\* its processing is waiting in the UI thread's queue or running.
CycleActive == ActiveWorkers # {} \/ ProcessPosted \/ Processing

\* The workers that have left the try block through an exception or its end.
Unwinding == \A w \in Workers : worker[w].pc \in {"idle", "except", "finally"}

\* The worker of the cycle has returned.
WorkerEnded == ActiveWorkers = {} /\ outcome # "none"

\* The instrument calls of a cycle that runs through with a Keithley connected.
FullCycle ==
    Repeat("KOOL", NumKoolCmds) \o <<KEITHLEY_OUTPUT_OFF>>
        \o Repeat("B", NUM_AVERAGES) \o <<KEITHLEY_OUTPUT_ON>>
        \o Repeat("R", NUM_AVERAGES) \o <<KEITHLEY_OUTPUT_OFF>>

\* C1: when the worker of a cycle that started with a connected Keithley has
\* ended, whatever the outcome, an ON command sent in the cycle was followed
\* by an OFF command: the last output command of the cycle is OFF.
C1_OutputNeverLeftOn ==
    (WorkerEnded /\ keithAtStart /\ Count(events, KEITHLEY_OUTPUT_ON) > 0)
        => LastKeithCmd = KEITHLEY_OUTPUT_OFF

\* C2: at most one worker runs at a time, and a run request made while a
\* cycle is between its start and its terminal state is ignored: it starts
\* no worker, sends no instrument command and changes nothing of the cycle.
C2_OneCycleAtATime ==
    /\ [](Cardinality(ActiveWorkers) <= 1)
    /\ [][(nreq' # nreq /\ CycleActive)
            => /\ request' = "ignored"
               /\ UNCHANGED <<handles, reference_data, btn_run, status_text,
                              afterQueue, ui, worker, cycleHist>>]_vars

\* A run request was ignored while the READ capture was in progress.
C2_Witness ==
    /\ request = "ignored"
    /\ \E w \in Workers : worker[w].pc = "capture_read" /\ worker[w].i > 0

\* The scope and generator connections are established and a reference is loaded.
Ready == scope /\ kool /\ koolResponding /\ reference_data # NoneVal

\* C3: a run request starts a cycle only when the scope connection and the
\* generator connection are established and a reference is loaded; otherwise
\* it is rejected: no worker starts, no command is sent, the run button
\* stays enabled.
C3_StartOnlyWhenReady ==
    [][(nreq' # nreq /\ ~Ready)
        => /\ request' # "started"
           /\ UNCHANGED <<handles, reference_data, btn_run, status_text,
                          afterQueue, ui, worker, cycleHist>>]_vars

\* C4: the instrument calls of a cycle that started with a connected Keithley
\* are a prefix of: generator commands, OFF, the BASE reads, ON, the READ
\* reads, OFF.  In every cycle no READ read or ON command precedes a BASE
\* read, no READ read precedes the ON command, and no output command falls
\* between two reads of one pass.
C4_StrictOrder ==
    /\ keithAtStart => IsPrefix(events, FullCycle)
    /\ \A a, b \in 1..Len(events) :
        a < b =>
            /\ ~(events[a] \in {"R", KEITHLEY_OUTPUT_ON} /\ events[b] = "B")
            /\ ~(events[a] = "R" /\ events[b] = KEITHLEY_OUTPUT_ON)
            /\ (events[a] = events[b] /\ events[a] \in {"B", "R"})
                => \A c \in a..b : events[c] = events[a]

\* A cycle with a Keithley made every call of the sequence.
C4_Witness == keithAtStart /\ events = FullCycle

\* C5: when a step of process_and_display fails, the output commands of the
\* cycle, if there are any, end with OFF; with a Keithley connected at the
\* start of the cycle there are some.
C5_CleanupBeforeProcessing ==
    failure = "processing" =>
        /\ keithAtStart => KeithCmds # <<>>
        /\ KeithCmds # <<>> => LastKeithCmd = KEITHLEY_OUTPUT_OFF

\* Processing failed in a cycle that had switched the output ON.
C5_Witness ==
    /\ failure = "processing"
    /\ outcome = "processing_failed"
    /\ keithAtStart
    /\ Count(events, KEITHLEY_OUTPUT_ON) = 1

\* C6: when configuring the generator fails, the cycle goes to the error
\* state: the worker goes from the failed call to its except clause and from
\* there to its end, no output command is sent, no scope read made, no
\* processing posted or run, and the step that puts the cycle in error sets
\* the status to the error text.
C6_ConfigFailure ==
    /\ [](failure = "config" =>
            /\ Unwinding
            /\ outcome \in {"none", "error"}
            /\ outcome = "none" => \E w \in Workers : worker[w].pc = "except"
            /\ \A k \in 1..Len(events) : events[k] = "KOOL"
            /\ ~ProcessPosted /\ ~Processing)
    /\ [][(outcome' = "error" /\ outcome # "error")
            => status_text' = "Error during cycle"]_vars

\* The third generator command raised, and the except clause has run.
C6_Witness ==
    /\ failure = "config"
    /\ Len(events) = 3
    /\ outcome = "error"
    /\ status_text = "Error during cycle"

\* C7: when the k-th read of a capture pass yields nothing, it is the last
\* instrument call of the cycle: the pass made exactly k reads, no averaged
\* waveform reached processing, and the cycle goes to the error state.
C7_CaptureAbort ==
    failedRead > 0 =>
        LET ev == IF failure = "base" THEN "B" ELSE "R"
        IN  /\ failure \in {"base", "read"}
            /\ Count(events, ev) = failedRead
            /\ events[Len(events)] = ev
            /\ Unwinding
            /\ outcome \in {"none", "error"}
            /\ outcome = "none" => \E w \in Workers : worker[w].pc = "except"
            /\ ~ProcessPosted /\ ~Processing

\* The fourth read of the READ pass yielded nothing; the cycle is in error.
C7_Witness ==
    /\ failedRead = 4 /\ failure = "read" /\ outcome = "error"
    /\ ActiveWorkers = {}

\* C8: after the first failure of a cycle no later step runs: no capture
\* after a failed configuration; no ON command and no READ read after a
\* failed BASE capture; no output command and no processing after a failed
\* READ capture.  A worker that ended without such a failure made every call
\* of the cycle and posted the processing; no call is made outside a cycle.
C8_StopAtFirstFailure ==
    /\ failure \in {"config", "base", "read"}
        => /\ Unwinding
           /\ ActiveWorkers = {} => outcome = "error"
           /\ ~ProcessPosted /\ ~Processing
    /\ failure = "config"
        => Count(events, "B") + Count(events, "R") + Len(KeithCmds) = 0
    /\ failure = "base"
        => Count(events, KEITHLEY_OUTPUT_ON) + Count(events, "R") = 0
    /\ failure = "read" => events[Len(events)] = "R"
    /\ (WorkerEnded /\ failure \notin {"config", "base", "read"})
        => /\ Count(events, "KOOL") = NumKoolCmds
           /\ Count(events, "B") = NUM_AVERAGES
           /\ Count(events, "R") = NUM_AVERAGES
           /\ outcome \in {"handed_off", "processing_failed", "done"}
    /\ (ActiveWorkers = {} /\ outcome = "none") => events = <<>>

\* A BASE capture failed in a cycle with a Keithley, and the cycle is over.
C8_Witness ==
    /\ failure = "base"
    /\ keithAtStart
    /\ btn_run = "normal"
    /\ Count(events, "B") = NUM_AVERAGES

\* C9: after a cycle ended in error, or its processing failed, the run
\* button becomes enabled again, and a run request made with the button
\* enabled and the preconditions met starts a new cycle.
C9_RecoversAfterError ==
    /\ (outcome \in {"error", "processing_failed"}) ~> (btn_run = "normal")
    /\ [][(nreq' # nreq /\ btn_run = "normal" /\ Ready)
            => (request' = "started" /\ ActiveWorkers' # {})]_vars

\* A new cycle is past its configuration while the status still shows the
\* error of the cycle before it.
C9_Witness ==
    /\ status_text = "Error during cycle"
    /\ \E w \in Workers : worker[w].pc = "keith_off"

\* C10: a cycle in which an instrument call raised is in the error state
\* when its worker has ended.
C10_IoFailureIsError == (ioFailed /\ ActiveWorkers = {}) => outcome = "error"

\* C11: the step in which a part of the processing chain (normalizer,
\* conditioner, analyzer, CSV or image persistence) raises leaves the cycle
\* reported as failed: the status shows the error and not the completion.
C11_ProcessingFailureIsError ==
    [][(failure' = "processing" /\ failure # "processing")
        => /\ status_text' # "Cycle Complete. Results shown."
           /\ status_text' = "Error during cycle"]_vars

\* C14: a step of the worker thread never writes the status text or the run
\* button; they change only in steps of the UI thread.
C14_WorkerNeverWritesUi ==
    [][(\E w \in Workers : WorkerStep(w))
        => UNCHANGED <<status_text, btn_run>>]_vars

\* C15: the loaded reference does not change while a cycle is between its
\* start and the end of its processing.
C15_ReferenceFixedDuringCycle ==
    [][CycleActive => reference_data' = reference_data]_vars

\* ====================================================================
\* The numeric pipeline: averaging, normalization, smoothing, spectrum
\* ====================================================================
\* A sample is an exact rational <<p, q>> in lowest terms with q > 0, where
\* the code computes in binary floating point.  A value that is not finite
\* has q = 0: <<1, 0>> is inf, <<-1, 0>> is -inf and <<0, 0>> is nan.
Abs(x) == IF x < 0 THEN -x ELSE x

Sign(x) == IF x < 0 THEN -1 ELSE IF x = 0 THEN 0 ELSE 1

RECURSIVE GCD(_, _)
GCD(a, b) == IF b = 0 THEN a ELSE GCD(b, a % b)

Rat(p, q) ==
    IF q = 0 THEN <<Sign(p), 0>>
    ELSE LET g == GCD(Abs(p), Abs(q))
         IN  <<Sign(q) * (p \div g), Abs(q) \div g>>

NaN == <<0, 0>>
IsFinite(a) == a[2] # 0
FromInt(x) == <<x, 1>>

\* a + b in IEEE-754: nan with a nan operand; an infinity absorbs a finite
\* operand and an infinity of its sign; inf + (-inf) is nan.
RAdd(a, b) ==
    IF a = NaN \/ b = NaN THEN NaN
    ELSE IF IsFinite(a) /\ IsFinite(b)
    THEN Rat(a[1] * b[2] + b[1] * a[2], a[2] * b[2])
    ELSE IF IsFinite(b) THEN a
    ELSE IF IsFinite(a) THEN b
    ELSE IF a = b THEN a ELSE NaN

\* a - b is a + (-b); the sign of b flips, a nan stays nan
RSub(a, b) == RAdd(a, <<-b[1], b[2]>>)

\* a * b: the product of an infinity and a non-zero value is the infinity
\* with the product's sign; 0 * inf is nan.
RMul(a, b) ==
    IF a = NaN \/ b = NaN THEN NaN
    ELSE IF IsFinite(a) /\ IsFinite(b) THEN Rat(a[1] * b[1], a[2] * b[2])
    ELSE <<Sign(a[1]) * Sign(b[1]), 0>>

\* a / b; numpy divides by zero without raising: x/0 is +-inf, 0/0 is nan.
\* A finite value over an infinity is zero, an infinity over a finite value
\* the infinity with the quotient's sign, inf/inf is nan.  The sign of a
\* zero is not kept: a zero divisor counts as +0.0.
RDiv(a, b) ==
    IF a = NaN \/ b = NaN THEN NaN
    ELSE IF IsFinite(a) /\ IsFinite(b) THEN Rat(a[1] * b[2], a[2] * b[1])
    ELSE IF IsFinite(a) THEN FromInt(0)
    ELSE IF IsFinite(b) THEN <<a[1] * (IF b[1] < 0 THEN -1 ELSE 1), 0>>
    ELSE NaN

\* a[:n]
Crop(a, n) == SubSeq(a, 1, Min2(n, Len(a)))

\* The sum of s[lo..hi], by halves.
RECURSIVE SumRange(_, _, _)
SumRange(s, lo, hi) ==
    IF lo > hi THEN 0
    ELSE IF lo = hi THEN s[lo]
    ELSE LET mid == (lo + hi) \div 2
         IN  SumRange(s, lo, mid) + SumRange(s, mid + 1, hi)

SeqSum(s) == SumRange(s, 1, Len(s))

RECURSIVE RatSumRange(_, _, _)
RatSumRange(s, lo, hi) ==
    IF lo > hi THEN FromInt(0)
    ELSE IF lo = hi THEN s[lo]
    ELSE LET mid == (lo + hi) \div 2
         IN  RAdd(RatSumRange(s, lo, mid), RatSumRange(s, mid + 1, hi))

RatSum(s) == RatSumRange(s, 1, Len(s))

\* min(len(a) for a in all_v), for a non-empty list
RECURSIVE MinOfLens(_)
MinOfLens(all_v) ==
    IF Len(all_v) = 1 THEN Len(all_v[1])
    ELSE Min2(Len(all_v[1]), MinOfLens(Tail(all_v)))

EqualLens(rows) == \A k \in 1..Len(rows) : Len(rows[k]) = Len(rows[1])

\* The divisor of the column mean is the number of stacked rows.
RowCount_Fixed(rows) == NUM_AVERAGES

RowCount(rows) == Len(rows)

\* np.mean(np.vstack(rows), axis=0): vstack raises ValueError on rows of
\* different lengths; column i of the result is the mean of the i-th samples.
MeanAxis0(rows) ==
    IF ~EqualLens(rows) THEN [raised |-> "ValueError", avg |-> <<>>]
    ELSE [raised |-> "none",
          avg |-> [i \in 1..Len(rows[1]) |->
                     Rat(SeqSum([k \in 1..Len(rows) |-> rows[k][i]]),
                         RowCount(rows))]]

\* The time axis that goes with the averaged waveform.
CropTime_Uncropped(t_axis, min_len) == t_axis

CropTime(t_axis, min_len) == Crop(t_axis, min_len)

\* processing.py _capture_averaged, after the reads: crop every waveform and
\* the first read's time axis to the shortest length, then average.
capture_averaged(all_v, t_axis) ==
    LET min_len == MinOfLens(all_v)
        cropped == [k \in 1..Len(all_v) |-> Crop(all_v[k], min_len)]
        m == MeanAxis0(cropped)
    IN  [raised |-> m.raised, avg |-> m.avg,
         t_axis |-> CropTime(t_axis, min_len)]

\* appv5.py _capture_and_save, after the reads: the crop is done only when
\* some waveform is longer than the shortest one.
capture_and_save(all_v, t_axis) ==
    LET min_len == MinOfLens(all_v)
        differ == \E k \in 1..Len(all_v) : Len(all_v[k]) # min_len
        cropped == IF differ
                   THEN [k \in 1..Len(all_v) |-> Crop(all_v[k], min_len)]
                   ELSE all_v
        m == MeanAxis0(cropped)
    IN  [raised |-> m.raised, avg |-> m.avg,
         t_axis |-> IF differ THEN CropTime(t_axis, min_len) ELSE t_axis]

\* The time axis of a read of L samples: sample k is at xorg + k * xinc, here
\* with xorg = 0 and xinc = 1.
TimeAxisOf(L) == [k \in 1..L |-> k - 1]

\* ---- processing.py process_and_display, the arithmetic (lines 390-441)
\* n = min(len(base), len(read), len(self.reference_data))
AlignLen_NoReference(base, read, reference) == Min2(Len(base), Len(read))

AlignLen(base, read, reference) ==
    Min2(Min2(Len(base), Len(read)), Len(reference))

\* ref_c = self.reference_data[:n]
RefSlice_Whole(reference, n) == reference

RefSlice(reference, n) == Crop(reference, n)

\* np.mean of a sequence of numbers; of an empty one it is nan, not an error
Mean(s) == Rat(SeqSum(s), Len(s))

\* 0.0045
Scale == <<9, 2000>>

\* 1e-9 is 1 / EpsInv
EpsInv == 1000000000
Epsilon == <<1, EpsInv>>

\* if denom == 0: denom = 1e-9
ZeroFallback_None(denom) == denom

ZeroFallback(denom) == IF denom = FromInt(0) THEN Epsilon ELSE denom

\* Align, REF_AVG, RB, denom, final_values.  None of these numpy calls
\* raises, whatever the lengths.
Normalize(base, read, reference) ==
    LET n == AlignLen(base, read, reference)
        base_c == Crop(base, n)
        read_c == Crop(read, n)
        ref_c == RefSlice(reference, n)
        REF_AVG == Mean(ref_c)
        RB == [i \in 1..Len(read_c) |-> FromInt(read_c[i] - base_c[i])]
        denom == ZeroFallback(RMul(Scale, REF_AVG))
    IN  [n |-> n, REF_AVG |-> REF_AVG, denom |-> denom,
         final_values |-> [i \in 1..Len(RB) |->
                              RDiv(RSub(RB[i], REF_AVG), denom)]]

window == 256

\* np.convolve(a, np.ones(W) / W, mode="valid"): raises on an empty a; when
\* a is shorter than the kernel numpy swaps the two, so the result has
\* max(len(a), W) - min(len(a), W) + 1 values, each a sum of products
\* a[j] * (1 / W) over the overlap.
ConvolveValid(a, W) ==
    IF Len(a) = 0 THEN [raised |-> "ValueError", out |-> <<>>]
    ELSE IF Len(a) >= W
    THEN [raised |-> "none",
          out |-> [k \in 1..(Len(a) - W + 1) |->
                     RatSum([j \in 1..W |-> RMul(a[k + j - 1], <<1, W>>)])]]
    ELSE [raised |-> "none",
          out |-> [k \in 1..(W - Len(a) + 1) |->
                     RatSum([j \in 1..Len(a) |-> RMul(a[j], <<1, W>>)])]]

\* Step 4 of processing.py: smooth only an input longer than the window.
Smooth(final_values, time_c) ==
    IF Len(final_values) > window
    THEN LET r == ConvolveValid(final_values, window)
         IN  [raised |-> r.raised, rolling_avg |-> r.out,
              x_vals |-> Crop(time_c, Len(r.out))]
    ELSE [raised |-> "none", rolling_avg |-> final_values, x_vals |-> time_c]

\* a <= b; a comparison with nan is false
RLeq(a, b) ==
    /\ a # NaN /\ b # NaN
    /\ IF IsFinite(a) \/ IsFinite(b) THEN a[1] * b[2] <= b[1] * a[2]
       ELSE a[1] <= b[1]

\* np.max and np.min of a non-empty array; a nan in it is the result
RMax(s) == IF \E i \in 1..Len(s) : s[i] = NaN THEN NaN
           ELSE s[CHOOSE i \in 1..Len(s) : \A j \in 1..Len(s) : RLeq(s[j], s[i])]
RMin(s) == IF \E i \in 1..Len(s) : s[i] = NaN THEN NaN
           ELSE s[CHOOSE i \in 1..Len(s) : \A j \in 1..Len(s) : RLeq(s[i], s[j])]

\* The keys of the stats dict, in the order they are inserted.
StatKeys == <<"Max", "Min", "Avg", "Std">>

\* The value stored under a key.  Max and Min are computed; for Avg and Std
\* the value is stood for by the name of the numpy reduction that yields it.
StatValue(key, rolling_avg) ==
    CASE key = "Max" -> <<RMax(rolling_avg)>>
      [] key = "Min" -> <<RMin(rolling_avg)>>
      [] key = "Avg" -> <<"np.mean">>
      [] key = "Std" -> <<"np.std">>
      [] OTHER -> <<>>

\* Step 5: np.max of an empty array raises ValueError; otherwise the dict
\* has one entry per key.
Statistics(rolling_avg) ==
    IF Len(rolling_avg) = 0 THEN [raised |-> "ValueError", stats |-> <<>>]
    ELSE [raised |-> "none",
          stats |-> [k \in 1..Len(StatKeys) |->
                       [key |-> StatKeys[k],
                        value |-> StatValue(StatKeys[k], rolling_avg)]]]

\* np.fft.fftfreq(N, d): k / (N d) for the first (N - 1) // 2 + 1 bins, then
\* the negative frequencies.
FftFreq(N, d) ==
    [k \in 1..N |-> IF k - 1 <= (N - 1) \div 2 THEN Rat(k - 1, N * d)
                    ELSE Rat(k - 1 - N, N * d)]

\* Step 6: np.fft.fft raises ValueError on an empty input, and x_vals[1]
\* raises IndexError on a time axis of fewer than two samples (x_vals[1] is
\* the second sample: x_vals[2] here).  A magnitude is stood for by the
\* index of its bin.
Spectrum(rolling_avg, x_vals) ==
    LET N == Len(rolling_avg)
        half_n == N \div 2
    IN  IF N = 0
        THEN [raised |-> "ValueError", fft_frq |-> <<>>, fft_mag |-> <<>>]
        ELSE IF Len(x_vals) < 2
        THEN [raised |-> "IndexError", fft_frq |-> <<>>, fft_mag |-> <<>>]
        ELSE [raised |-> "none",
              fft_frq |-> Crop(FftFreq(N, x_vals[2] - x_vals[1]), half_n),
              fft_mag |-> Crop([k \in 1..N |-> k - 1], half_n)]

\* A CSV field with a value in it, and the field written for the empty
\* string.  The text a float is written as is not modelled: a field holds the
\* value itself.
Field(v) == <<v>>
EmptyField == <<>>

\* t_val = x_vals[i] if i < len(x_vals) else ""   (i counts from 0)
Cell_Unpadded(col, i) == Field(col[Min2(i, Len(col))])

Cell(col, i) == IF i <= Len(col) THEN Field(col[i]) ELSE EmptyField

\* rows = max(len(x_vals), len(fft_frq))
Max2(a, b) == IF a >= b THEN a ELSE b

\* Lines 450-466: the lines written to the file, each a sequence of fields.
\* "Statistics", one key,value line per entry of stats, an empty line,
\* "Data", the header row, then the data rows.
CsvLines(stats, x_vals, rolling_avg, fft_frq, fft_mag) ==
    LET rows == Max2(Len(x_vals), Len(fft_frq))
    IN  <<<<"Statistics">>>>
        \o [k \in 1..Len(stats) |-> <<stats[k].key, stats[k].value>>]
        \o << <<>>, <<"Data">>,
              <<"Time", "Processed_Signal", "Frequency", "FFT_Magnitude">> >>
        \o [i \in 1..rows |-> <<Cell(x_vals, i), Cell(rolling_avg, i),
                                Cell(fft_frq, i), Cell(fft_mag, i)>>]

\* Lines 390-441 in order, up to the first call that raises.
process_math(base, read, reference, time_axis) ==
    LET nz == Normalize(base, read, reference)
        sm == Smooth(nz.final_values, Crop(time_axis, nz.n))
        st == Statistics(sm.rolling_avg)
        reached == sm.raised = "none" /\ st.raised = "none"
        sp == IF reached THEN Spectrum(sm.rolling_avg, sm.x_vals)
              ELSE [raised |-> "none", fft_frq |-> <<>>, fft_mag |-> <<>>]
    IN  [failedAt |-> IF sm.raised # "none" THEN "smooth"
                      ELSE IF st.raised # "none" THEN "statistics"
                      ELSE IF sp.raised # "none" THEN "spectrum"
                      ELSE "none",
         raised |-> IF sm.raised # "none" THEN sm.raised
                    ELSE IF st.raised # "none" THEN st.raised
                    ELSE sp.raised,
         n |-> nz.n, REF_AVG |-> nz.REF_AVG, denom |-> nz.denom,
         final_values |-> nz.final_values,
         rolling_avg |-> sm.rolling_avg, x_vals |-> sm.x_vals,
         fft_frq |-> sp.fft_frq, fft_mag |-> sp.fft_mag,
         stats |-> st.stats,
         csv |-> IF reached /\ sp.raised = "none"
                 THEN CsvLines(st.stats, sm.x_vals, sm.rolling_avg,
                               sp.fft_frq, sp.fft_mag)
                 ELSE <<>>]

\* ---- mathv1.py index, the arithmetic (lines 31-43)
\* a - b on numpy arrays: elementwise on equal lengths, a length-1 operand
\* is broadcast, and any other pair of lengths raises ValueError.
Broadcast(a, L) == IF Len(a) = L THEN a ELSE [i \in 1..L |-> a[1]]

ArraySub(a, b) ==
    IF Len(a) = Len(b) \/ Len(a) = 1 \/ Len(b) = 1
    THEN LET L == IF Len(a) = 1 THEN Len(b)
                  ELSE IF Len(b) = 1 THEN Len(a) ELSE Len(a)
         IN  [raised |-> "none",
              out |-> [i \in 1..L |->
                         FromInt(Broadcast(a, L)[i] - Broadcast(b, L)[i])]]
    ELSE [raised |-> "ValueError", out |-> <<>>]

\* REF over the whole reference column, no fallback for a zero denominator,
\* and the convolution applied to an input of any length.
mathv1_index(base, read, reference, x_col) ==
    LET REF == Mean(reference)
        RB == ArraySub(read, base)
        final_values == [i \in 1..Len(RB.out) |->
                            RDiv(RSub(RB.out[i], REF), RMul(Scale, REF))]
        r == IF RB.raised = "none" THEN ConvolveValid(final_values, window)
             ELSE [raised |-> "none", out |-> <<>>]
    IN  [failedAt |-> IF RB.raised # "none" THEN "subtract"
                      ELSE IF r.raised # "none" THEN "smooth" ELSE "none",
         raised |-> IF RB.raised # "none" THEN RB.raised ELSE r.raised,
         final_values |-> final_values,
         rolling_avg |-> r.out,
         x_vals |-> Crop(x_col, Len(r.out))]

\* ---- _configure_koolertron: the duty cycle handed to the driver
\* processing.py: duty = self.duty_percent.get() / 100.0
DutyFraction(duty_pct) == Rat(duty_pct, 100)

\* max and min of two finite rationals
RMax2(a, b) == IF RLeq(a, b) THEN b ELSE a
RMin2(a, b) == IF RLeq(a, b) THEN a ELSE b

\* appv5.py: duty_frac = max(0.0, min(1.0, duty_pct / 100.0))
DutyFractionV5(duty_pct) ==
    RMax2(FromInt(0), RMin2(FromInt(1), Rat(duty_pct, 100)))

\* One driver call of _configure_koolertron with the duty cycle computed:
\* the waveform of channels 1 and 2, setDuty of channels 1 and 2, the
\* amplitude of channels 1 and 2.  m.res: calls, the driver calls begun;
\* setDuty, the arguments handed to setDuty so far; ret, the function's
\* return value once it has returned.  Reading the form's variables raises
\* before the first call; a driver call that raises ends the function.
ConfigureDutyCall(m, prog, duty, res) ==
    LET k == m.res.calls + 1
        handed == IF k \in {3, 4} THEN Append(m.res.setDuty, duty)
                  ELSE m.res.setDuty
    IN  IF res = "vars_raise"
        THEN [m EXCEPT !.by = prog, !.res.ret = "False"]
        ELSE [m EXCEPT !.by = prog,
                       !.res = [calls |-> k, setDuty |-> handed,
                                ret |-> IF res = "call_raises" THEN "False"
                                        ELSE IF k = NumKoolCmds THEN "True"
                                        ELSE "running"]]

\* ---- _read_scope_once: raw codes to a waveform
\* Mutant: the offset is subtracted after the scaling.
ScaleVolt_OffsetAfter(raw, cal) ==
    [i \in 1..Len(raw) |-> raw[i] * cal.ymult - cal.yoff + cal.yzero]

\* volt = (raw - yoff) * ymult + yzero
ScaleVolt(raw, cal) ==
    [i \in 1..Len(raw) |-> (raw[i] - cal.yoff) * cal.ymult + cal.yzero]

\* t = np.arange(len(volt)) * xinc + xorg
ScaleTime(L, cal) == [i \in 1..L |-> (i - 1) * cal.xinc + cal.xorg]

\* The same three lines in processing.py, appv5.py and app_v2.py.
read_scope_once(raw, cal) ==
    LET volt == ScaleVolt(raw, cal)
    IN  [volt |-> volt, t |-> ScaleTime(Len(volt), cal)]

\* ---- The inputs the pipeline is applied to
MaxWaves == 2
MaxSamples == 2
MaxExtra == 2

SampleVals == {0, 1}
RefVals == {-1, 0, 1}

RECURSIVE SeqsOfLen(_, _)
SeqsOfLen(S, n) ==
    IF n = 0 THEN {<<>>}
    ELSE {Append(q, x) : q \in SeqsOfLen(S, n - 1), x \in S}

SeqsUpTo(S, n) == UNION {SeqsOfLen(S, k) : k \in 0..n}

Waves == SeqsUpTo(SampleVals, MaxSamples)
RefWaves == SeqsUpTo(RefVals, MaxSamples)

\* The reads of one capture: 1..MaxWaves waveforms of up to MaxSamples
\* samples, or NUM_AVERAGES identical passes; the time axis is that of the
\* first read.
CaptureInput(all_v) ==
    [kind |-> "capture", by |-> "none",
     inp |-> [all_v |-> all_v, t_axis |-> TimeAxisOf(Len(all_v[1]))],
     res |-> <<>>]

CaptureInputs ==
    {CaptureInput(av) :
        av \in UNION {SeqsOfLen(Waves, N) : N \in 1..MaxWaves}}
    \cup {CaptureInput(Repeat(<<10, 20, 30>>, NUM_AVERAGES))}

\* Base, read and reference of one processing run; the time axis is that of
\* the read.
ProcessInput(base, read, reference) ==
    [kind |-> "process", by |-> "none",
     inp |-> [base |-> base, read |-> read, reference |-> reference,
              time_axis |-> TimeAxisOf(Len(read))],
     res |-> <<>>]

\* Signals around the window length: a flat base, a read that is 1 at every
\* third sample and 0 elsewhere, a flat reference.
LongLens == (window - 1)..(window + MaxExtra)

LongInput(L) ==
    ProcessInput([i \in 1..L |-> 0],
                 [i \in 1..L |-> IF i % 3 = 0 THEN 1 ELSE 0],
                 [i \in 1..L |-> 1])

ProcessInputs ==
    {ProcessInput(b, r, f) : b \in Waves, r \in Waves, f \in RefWaves}
    \cup {ProcessInput(Repeat(0, 4), Repeat(1, 4), Repeat(1, 4))}
    \cup {LongInput(L) : L \in LongLens}

\* The duty cycle the user entered, in percent.
DutyPcts == {-50, 0, 25, 50, 100, 150}

DutyInputs ==
    {[kind |-> "duty", by |-> "none", inp |-> [duty_pct |-> p],
      res |-> [calls |-> 0, setDuty |-> <<>>, ret |-> "running"]] :
        p \in DutyPcts}

\* What one read gets from the scope: the five scale factors of the
\* preamble and the curve's codes.
RawVals == {0, 200}

Calibrations ==
    [xinc : {1, 2}, xorg : {-1, 0}, ymult : {1, 2}, yoff : {0, 1},
     yzero : {0, 1}]

UnitCalibration ==
    [xinc |-> 1, xorg |-> 0, ymult |-> 1, yoff |-> 0, yzero |-> 0]

ReadInput(raw, cal) ==
    [kind |-> "read", by |-> "none", inp |-> [raw |-> raw, cal |-> cal],
     res |-> <<>>]

ReadInputs ==
    {ReadInput(raw, cal) :
        raw \in SeqsUpTo(RawVals, MaxSamples), cal \in Calibrations}
    \cup {ReadInput(<<10, 20, 30>>, UnitCalibration)}

MathInit ==
    /\ CtlInit
    /\ v5 = V5Init
    /\ math \in CaptureInputs \cup ProcessInputs \cup DutyInputs
                 \cup ReadInputs

\* processing.py averages the reads of a capture.
ApplyCaptureAveraged ==
    /\ math.kind = "capture" /\ math.by = "none"
    /\ math' = [math EXCEPT !.by = "processing.py",
                     !.res = capture_averaged(math.inp.all_v, math.inp.t_axis)]
    /\ UNCHANGED <<ctlVars, v5>>

\* appv5.py averages the reads of a capture.
ApplyCaptureAndSave ==
    /\ math.kind = "capture" /\ math.by = "none"
    /\ math' = [math EXCEPT !.by = "appv5.py",
                     !.res = capture_and_save(math.inp.all_v, math.inp.t_axis)]
    /\ UNCHANGED <<ctlVars, v5>>

\* processing.py processes base, read and reference.
ApplyProcess ==
    /\ math.kind = "process" /\ math.by = "none"
    /\ math' = [math EXCEPT !.by = "processing.py",
                     !.res = process_math(math.inp.base, math.inp.read,
                                          math.inp.reference,
                                          math.inp.time_axis)]
    /\ UNCHANGED <<ctlVars, v5>>

\* mathv1.py processes base, read and reference.
ApplyMathV1 ==
    /\ math.kind = "process" /\ math.by = "none"
    /\ math' = [math EXCEPT !.by = "mathv1.py",
                     !.res = mathv1_index(math.inp.base, math.inp.read,
                                          math.inp.reference,
                                          math.inp.time_axis)]
    /\ UNCHANGED <<ctlVars, v5>>

\* processing.py _configure_koolertron, one driver call per step.
ApplyConfigureDuty ==
    /\ math.kind = "duty" /\ math.by \in {"none", "processing.py"}
    /\ math.res.ret = "running"
    /\ \E res \in (IF math.by = "none" THEN {"vars_raise"} ELSE {})
                      \cup {"ok", "call_raises"} :
        math' = ConfigureDutyCall(math, "processing.py",
                                  DutyFraction(math.inp.duty_pct), res)
    /\ UNCHANGED <<ctlVars, v5>>

\* appv5.py _configure_koolertron, one driver call per step.
ApplyConfigureDutyV5 ==
    /\ math.kind = "duty" /\ math.by \in {"none", "appv5.py"}
    /\ math.res.ret = "running"
    /\ \E res \in (IF math.by = "none" THEN {"vars_raise"} ELSE {})
                      \cup {"ok", "call_raises"} :
        math' = ConfigureDutyCall(math, "appv5.py",
                                  DutyFractionV5(math.inp.duty_pct), res)
    /\ UNCHANGED <<ctlVars, v5>>

\* One read of the scope, in each of the three programs.
ApplyReadScope ==
    /\ math.kind = "read" /\ math.by = "none"
    /\ \E prog \in {"processing.py", "appv5.py", "app_v2.py"} :
        math' = [math EXCEPT !.by = prog,
                      !.res = read_scope_once(math.inp.raw, math.inp.cal)]
    /\ UNCHANGED <<ctlVars, v5>>

MathNext ==
    \/ ApplyCaptureAveraged
    \/ ApplyCaptureAndSave
    \/ ApplyProcess
    \/ ApplyMathV1
    \/ ApplyConfigureDuty
    \/ ApplyConfigureDutyV5
    \/ ApplyReadScope

MathSpec == MathInit /\ [][MathNext]_vars

\* What the pipeline's results are claimed about.
Captured == math.kind = "capture" /\ math.by # "none"
Processed == math.kind = "process" /\ math.by = "processing.py"
ProcessedV1 == math.kind = "process" /\ math.by = "mathv1.py"

\* The shortest length among the reads, taken from the set of lengths.
ShortestLen(all_v) ==
    CHOOSE m \in {Len(all_v[k]) : k \in 1..Len(all_v)} :
        \A k \in 1..Len(all_v) : m <= Len(all_v[k])

\* Value a (a rational) is the mean of the i-th samples of the reads.
IsMeanAt(a, all_v, i) ==
    /\ a[2] > 0
    /\ a[1] * Len(all_v) = a[2] * SeqSum([k \in 1..Len(all_v) |-> all_v[k][i]])

\* C12: the arithmetic up to the statistics raises exactly when the common
\* truncated length of base, read and reference is 0, and then with numpy's
\* ValueError on the empty result; for every other length it yields a
\* normalized signal of that length and raises nothing.
C12_FailsOnlyOnEmpty ==
    Processed =>
        LET n0 == Min2(Min2(Len(math.inp.base), Len(math.inp.read)),
                       Len(math.inp.reference))
            failed == math.res.failedAt \in {"smooth", "statistics"}
        IN  /\ failed <=> n0 = 0
            /\ n0 = 0 => math.res.raised = "ValueError"
            /\ n0 > 0 => /\ Len(math.res.final_values) = n0
                         /\ Len(math.res.rolling_avg) >= 1

\* Base and read are not empty, the reference is: the truncated length is 0
\* and the statistics raise.
C12_Witness ==
    /\ Processed
    /\ math.inp.reference = <<>>
    /\ Len(math.inp.base) > 0 /\ Len(math.inp.read) > 0
    /\ math.res.failedAt = "statistics"

\* C13: whenever the spectrum step is reached with a smoothed signal of
\* length N, it does not fail and returns frequencies and magnitudes of
\* length N \div 2 each (none for N <= 1).
C13_SpectrumHalfLength ==
    (Processed /\ math.res.failedAt \notin {"smooth", "statistics"}) =>
        LET N == Len(math.res.rolling_avg)
        IN  /\ math.res.failedAt = "none"
            /\ Len(math.res.fft_frq) = N \div 2
            /\ Len(math.res.fft_mag) = N \div 2

\* C16: for N >= 1 reads of one length L the average has length L and its
\* i-th value is the mean of the reads' i-th values; NUM_AVERAGES passes of
\* 10, 20, 30 average to 10, 20, 30.
C16_PointwiseMean ==
    (Captured /\ EqualLens(math.inp.all_v)) =>
        LET all_v == math.inp.all_v
            L == Len(all_v[1])
        IN  /\ math.res.raised = "none"
            /\ Len(math.res.avg) = L
            /\ \A i \in 1..L : IsMeanAt(math.res.avg[i], all_v, i)
            /\ all_v = Repeat(<<10, 20, 30>>, NUM_AVERAGES)
                 => math.res.avg = <<<<10, 1>>, <<20, 1>>, <<30, 1>>>>

\* Two reads of two samples that differ in the first sample.
C16_Witness ==
    /\ Captured /\ math.by = "appv5.py"
    /\ math.inp.all_v = <<<<0, 1>>, <<1, 1>>>>
    /\ math.res.avg = <<<<1, 2>>, <<1, 1>>>>

\* C17: for reads of differing lengths the average has the shortest length,
\* its values are the means over the first samples of every read, and the
\* time axis is the first read's, cut to that length; the time axis and the
\* average have equal lengths after every capture.
C17_CropToShortest ==
    Captured =>
        /\ Len(math.res.t_axis) = Len(math.res.avg)
        /\ ~EqualLens(math.inp.all_v) =>
             LET all_v == math.inp.all_v
                 m == ShortestLen(all_v)
             IN  /\ math.res.raised = "none"
                 /\ Len(math.res.avg) = m
                 /\ \A i \in 1..m : IsMeanAt(math.res.avg[i], all_v, i)
                 /\ math.res.t_axis = [i \in 1..m |-> math.inp.t_axis[i]]

\* The first read is longer than the second: the average and the time axis
\* are cut to one sample.
C17_Witness ==
    /\ Captured /\ math.by = "processing.py"
    /\ math.inp.all_v = <<<<0, 1>>, <<1>>>>
    /\ math.res.avg = <<<<1, 2>>>>
    /\ math.res.t_axis = <<0>>

\* C18: the normalized signal has the common truncated length n, REF_AVG is
\* the mean of the first n reference samples, and where REF_AVG is not 0
\* value i is (read[i] - base[i] - REF_AVG) / (0.0045 * REF_AVG), stated
\* here over integers with S the sum of the first n reference samples:
\* p * 45 * S = q * 10000 * ((read[i] - base[i]) * n - S) for the value p/q.
\* Base 0,0,0,0 with read 1,1,1,1 and reference 1,1,1,1 gives 0,0,0,0.
C18_NormalizedValues ==
    Processed =>
        LET base == math.inp.base
            read == math.inp.read
            reference == math.inp.reference
            n == Min2(Min2(Len(base), Len(read)), Len(reference))
            S == SeqSum([i \in 1..n |-> reference[i]])
            final == math.res.final_values
        IN  /\ math.res.n = n
            /\ Len(final) = n
            /\ n > 0 => /\ math.res.REF_AVG[2] > 0
                        /\ math.res.REF_AVG[1] * n = math.res.REF_AVG[2] * S
            /\ (n > 0 /\ S # 0) =>
                 \A i \in 1..n :
                    /\ final[i][2] > 0
                    /\ final[i][1] * 45 * S
                         = final[i][2] * 10000 * ((read[i] - base[i]) * n - S)
            /\ (base = <<0, 0, 0, 0>> /\ read = <<1, 1, 1, 1>>
                    /\ reference = <<1, 1, 1, 1>>)
                 => final = <<<<0, 1>>, <<0, 1>>, <<0, 1>>, <<0, 1>>>>

\* The reference is longer than base and read, and its first sample alone
\* gives REF_AVG = 1: the value is (0 - 0 - 1) / 0.0045 = -2000/9.
C18_Witness ==
    /\ Processed
    /\ math.inp.base = <<0>> /\ math.inp.read = <<0>>
    /\ math.inp.reference = <<1, -1>>
    /\ math.res.REF_AVG = <<1, 1>>
    /\ math.res.final_values = <<<<-2000, 9>>>>

\* C19: when the first n reference samples sum to 0 (REF_AVG = 0, n > 0)
\* the denominator is 1e-9 and every value is finite and equal to
\* (read[i] - base[i]) / 1e-9, that is (read[i] - base[i]) * 10^9.
C19_ZeroReferenceFallback ==
    Processed =>
        LET base == math.inp.base
            read == math.inp.read
            reference == math.inp.reference
            n == Min2(Min2(Len(base), Len(read)), Len(reference))
            S == SeqSum([i \in 1..n |-> reference[i]])
        IN  (n > 0 /\ S = 0) =>
                /\ math.res.denom = <<1, EpsInv>>
                /\ Len(math.res.final_values) = n
                /\ \A i \in 1..n :
                     /\ IsFinite(math.res.final_values[i])
                     /\ math.res.final_values[i]
                          = <<(read[i] - base[i]) * EpsInv, 1>>

\* A reference of -1, 1 averages to 0: the values are +-10^9.
C19_Witness ==
    /\ Processed
    /\ math.inp.reference = <<-1, 1>>
    /\ math.inp.base = <<0, 1>> /\ math.inp.read = <<1, 0>>
    /\ math.res.final_values = <<<<EpsInv, 1>>, <<-EpsInv, 1>>>>

\* C20: in processing.py and in mathv1.py alike, an input longer than the
\* window is smoothed to len(input) - window + 1 values, an input of at most
\* window values is passed on unchanged, and the time axis has the length
\* of the smoothed signal.
C20_SmoothedLength ==
    (Processed \/ (ProcessedV1 /\ math.res.failedAt # "subtract")) =>
        LET L == Len(math.res.final_values)
        IN  /\ L > window => Len(math.res.rolling_avg) = L - window + 1
            /\ L <= window => math.res.rolling_avg = math.res.final_values
            /\ Len(math.res.x_vals) = Len(math.res.rolling_avg)

\* The processing ran to its end and the file was written.
Persisted == Processed /\ math.res.failedAt = "none"

\* The line of the file that holds the header row of the data section: it
\* follows "Statistics", the statistics lines, the empty line and "Data".
HeaderLine == Len(math.res.stats) + 4

\* C21: the data section is the header row Time, Processed_Signal,
\* Frequency, FFT_Magnitude followed by exactly max(len(time axis),
\* len(frequencies)) rows; row i holds the i-th value of every column that has
\* one and an empty field for every column that is shorter.
C21_DataRows ==
    Persisted =>
        LET csv == math.res.csv
            cols == <<math.res.x_vals, math.res.rolling_avg,
                      math.res.fft_frq, math.res.fft_mag>>
            rows == IF Len(math.res.x_vals) >= Len(math.res.fft_frq)
                    THEN Len(math.res.x_vals) ELSE Len(math.res.fft_frq)
        IN  /\ csv[HeaderLine - 1] = <<"Data">>
            /\ csv[HeaderLine] = <<"Time", "Processed_Signal", "Frequency",
                                   "FFT_Magnitude">>
            /\ Len(csv) = HeaderLine + rows
            /\ \A i \in 1..rows :
                 /\ Len(csv[HeaderLine + i]) = 4
                 /\ \A c \in 1..4 :
                      IF i <= Len(cols[c])
                      THEN csv[HeaderLine + i][c] = <<cols[c][i]>>
                      ELSE csv[HeaderLine + i][c] = <<>>

\* Two samples: one frequency bin, so the second row has a time and a
\* signal value and two empty fields.
C21_Witness ==
    /\ Persisted
    /\ Len(math.res.x_vals) = 2 /\ Len(math.res.fft_frq) = 1
    /\ math.res.csv[HeaderLine + 2][1] = <<1>>
    /\ math.res.csv[HeaderLine + 2][3] = <<>>
    /\ math.res.csv[HeaderLine + 2][4] = <<>>

\* C22: the file begins with the line Statistics, followed by one key,value
\* line per statistic, all before the data section, and the statistics
\* written include the maximum, the minimum, the range, the mean and the
\* standard deviation.
C22_StatisticsBlock ==
    Persisted =>
        LET csv == math.res.csv
            nStats == Len(math.res.stats)
            keys == {csv[1 + k][1] : k \in 1..nStats}
        IN  /\ csv[1] = <<"Statistics">>
            /\ \A k \in 1..nStats :
                 csv[1 + k] = <<math.res.stats[k].key, math.res.stats[k].value>>
            /\ csv[nStats + 3] = <<"Data">>
            /\ {"Max", "Min", "Range", "Avg", "Std"} \subseteq keys

\* The instrument calls of a cycle that runs through without a Keithley.
FullCycleNoKeithley ==
    Repeat("KOOL", NumKoolCmds) \o Repeat("B", NUM_AVERAGES)
        \o Repeat("R", NUM_AVERAGES)

\* C23: without a Keithley handle no output command is sent, a cycle fails
\* only for a failed configuration or a failed read, and a cycle that is
\* handed to processing has made the generator calls, the BASE reads and the
\* READ reads, in this order.
C23_RunsWithoutKeithley ==
    ~keith =>
        /\ KeithCmds = <<>>
        /\ outcome = "error" => failure \in {"config", "base", "read"}
        /\ outcome \in {"handed_off", "done", "processing_failed"}
             => events = FullCycleNoKeithley

\* A cycle without a Keithley has posted its processing.
C23_Witness ==
    /\ ~keith
    /\ outcome = "handed_off" /\ ProcessPosted
    /\ events = FullCycleNoKeithley

\* C27: a cached generator handle was made by a connect in which the
\* generator answered isConnected() with true; so after a connect in which
\* it did not answer there is no handle, a run request is rejected as not
\* connected, and the status does not report connected hardware.
C27_CachedGeneratorResponded ==
    /\ (kool /\ ui.pc # "kool_check") => koolResponding
    /\ (request = "started" /\ CycleActive) => koolResponding
    /\ status_text = "Hardware Connected" => koolResponding

\* C30: the processing of a cycle is posted before the re-enabling of the
\* run button and the UI thread runs them in that order: a posted processing
\* has nothing ahead of it in the queue, and while a cycle is between its
\* start and the end of its process_and_display the button is disabled, so
\* no other cycle starts.
C30_ProcessBeforeEnable ==
    /\ CycleActive => btn_run = "disabled"
    /\ ProcessPosted => Head(afterQueue).cb = "process"
    /\ (ProcessPosted \/ Processing) =>
         \A w \in Workers : worker[w].pc \in {"idle", "finally"}
    /\ Cardinality(ActiveWorkers) <= 1

\* A successful cycle has posted both callbacks; the button is disabled.
C30_Witness ==
    /\ outcome = "handed_off"
    /\ ProcessPosted /\ Len(afterQueue) = 2
    /\ afterQueue[2].cb = "enable"
    /\ btn_run = "disabled"
    /\ ActiveWorkers = {}

\* C24: every duty cycle handed to setDuty is a fraction between 0 and 1,
\* whatever percentage was entered.
C24_DutyIsFraction ==
    (math.kind = "duty" /\ math.by # "none") =>
        \A k \in 1..Len(math.res.setDuty) :
            /\ math.res.setDuty[k][2] > 0
            /\ 0 <= math.res.setDuty[k][1]
            /\ math.res.setDuty[k][1] <= math.res.setDuty[k][2]

\* C25: a read turns the codes into voltage[i] = (raw[i] - y_offset) *
\* y_multiplier + y_zero and time[i] = i * x_increment + x_origin (i from
\* 0), both of the length of the codes; the identity calibration on 10, 20,
\* 30 gives voltages 10, 20, 30 and times 0, 1, 2.
C25_ReadConversion ==
    (math.kind = "read" /\ math.by # "none") =>
        LET raw == math.inp.raw
            cal == math.inp.cal
            volt == math.res.volt
            t == math.res.t
        IN  /\ Len(volt) = Len(raw) /\ Len(t) = Len(raw)
            /\ \A i \in 1..Len(raw) :
                 /\ volt[i] - cal.yzero
                      = cal.ymult * raw[i] - cal.ymult * cal.yoff
                 /\ t[i] - cal.xorg = (i - 1) * cal.xinc
            /\ (raw = <<10, 20, 30>> /\ cal = UnitCalibration)
                 => volt = <<10, 20, 30>> /\ t = <<0, 1, 2>>

\* Codes 0 and 200 with multiplier 2, offset 1 and zero 1 are -1 and 399
\* volts, at times -1 and 1 for increment 2 and origin -1.
C25_Witness ==
    /\ math.kind = "read" /\ math.by = "processing.py"
    /\ math.inp.raw = <<0, 200>>
    /\ math.inp.cal = [xinc |-> 2, xorg |-> -1, ymult |-> 2, yoff |-> 1,
                       yzero |-> 1]
    /\ math.res.volt = <<-1, 399>>
    /\ math.res.t = <<-1, 1>>

\* ====================================================================
\* appv5.py: connect, disconnect and the two step buttons.  v5.ui is where
\* the UI thread stands: in its loop, or inside a blocking call of
\* connect_devices (c_...) or of disconnect_devices (d_...).  A step thread
\* stands before a call (at = "none"), inside open_resource (at = "open") or
\* inside an instrument call made on the handle it found (at = "call").

\* connect_devices of appv5.py after the part `from`: on to the blocking call
\* of the first instrument without a handle.  given: the form field read on
\* the way (scope address, generator port or Keithley address) is not empty.
\* An empty scope address or generator port raises; the Keithley is opened
\* only when its address is given.
V5ConnectNext(r, from, given) ==
    IF from = "rm" /\ ~r.scope
    THEN [r EXCEPT !.ui = IF given THEN "c_scope_open" ELSE "loop"]
    ELSE IF from \in {"rm", "scope"} /\ ~r.kool
    THEN [r EXCEPT !.ui = IF given THEN "c_kool_ctor" ELSE "loop"]
    ELSE [r EXCEPT !.ui = IF given /\ ~r.keith THEN "c_keith_open"
                          ELSE "loop"]

\* The Connect button: connect_devices up to its first blocking call.
v5_connect_devices ==
    /\ v5.ui = "loop"
    /\ \E rmOk, given \in BOOLEAN :
        LET r == [v5 EXCEPT !.sinceDisconnect = FALSE, !.touched = FALSE]
        IN  v5' = IF r.rm THEN V5ConnectNext(r, "rm", given)
                  ELSE IF rmOk THEN [r EXCEPT !.rm = TRUE, !.ui = "c_list"]
                  ELSE r
    /\ UNCHANGED <<ctlVars, math>>

\* connect_devices: the blocking call it stands in returns or raises, and
\* the code runs on to the next one.
v5_connect_stage ==
    /\ v5.ui \in {"c_list", "c_scope_open", "c_scope_idn", "c_kool_ctor",
                  "c_kool_check", "c_keith_open", "c_keith_idn"}
    /\ \E ok, given \in BOOLEAN :
        v5' = CASE v5.ui = "c_list" ->
                     IF ok THEN V5ConnectNext(v5, "rm", given)
                     ELSE [v5 EXCEPT !.ui = "loop"]
                [] v5.ui = "c_scope_open" ->
                     [v5 EXCEPT !.scope = ok,
                                !.ui = IF ok THEN "c_scope_idn" ELSE "loop"]
                [] v5.ui = "c_scope_idn" ->
                     IF ok THEN V5ConnectNext(v5, "scope", given)
                     ELSE [v5 EXCEPT !.ui = "loop"]
                [] v5.ui = "c_kool_ctor" ->
                     [v5 EXCEPT !.kool = ok,
                                !.ui = IF ok THEN "c_kool_check" ELSE "loop"]
                [] v5.ui = "c_kool_check" ->
                     IF ok THEN V5ConnectNext(v5, "kool", given)
                     ELSE [v5 EXCEPT !.ui = "loop"]
                [] v5.ui = "c_keith_open" ->
                     [v5 EXCEPT !.keith = (@ \/ ok),
                                !.ui = IF ok THEN "c_keith_idn" ELSE "loop"]
                [] v5.ui = "c_keith_idn" -> [v5 EXCEPT !.ui = "loop"]
    /\ UNCHANGED <<ctlVars, math>>

\* disconnect_devices after the part `from`: the scope is closed when it has
\* a handle, then the Keithley; then the generator object is dropped and the
\* disconnect is complete.
V5DisconnectNext(r, from) ==
    IF from = "start" /\ r.scope THEN [r EXCEPT !.ui = "d_scope_close"]
    ELSE IF from # "keith" /\ r.keith THEN [r EXCEPT !.ui = "d_keith_close"]
    ELSE [r EXCEPT !.kool = FALSE, !.ui = "loop",
                   !.sinceDisconnect = TRUE, !.touched = FALSE]

\* The Disconnect button: disconnect_devices up to its first close().
v5_disconnect_devices ==
    /\ v5.ui = "loop"
    /\ v5' = V5DisconnectNext(v5, "start")
    /\ UNCHANGED <<ctlVars, math>>

\* disconnect_devices: the close() it stands in returns (or raises, which
\* is passed over) and the handle is set to None.
v5_disconnect_stage ==
    /\ v5.ui \in {"d_scope_close", "d_keith_close"}
    /\ v5' = IF v5.ui = "d_scope_close"
             THEN V5DisconnectNext([v5 EXCEPT !.scope = FALSE], "scope")
             ELSE V5DisconnectNext([v5 EXCEPT !.keith = FALSE], "keith")
    /\ UNCHANGED <<ctlVars, math>>

\* A step button: every click starts a thread; the step returns at once
\* without a scope or a generator handle.
v5_step_start(t) ==
    /\ v5.ui = "loop"
    /\ v5.thread[t].pc = "idle"
    /\ \A u \in Threads : v5.thread[u].pc = "idle" => t <= u
    /\ \E step \in {2, 3} :
        v5' = IF ~v5.scope \/ ~v5.kool THEN v5
              ELSE [v5 EXCEPT !.thread[t] =
                        [IdleThread EXCEPT !.pc = "configure", !.step = step]]
    /\ UNCHANGED <<ctlVars, math>>

\* Another step thread is between its configuration and its final OFF.
v5_OtherRunning(t) ==
    \E u \in Threads \ {t} :
        v5.thread[u].pc \in {"keith_on", "capture", "keith_off"}

\* Thread t's instrument call was made: an instrument was commanded.
V5Commanded(t) ==
    [v5 EXCEPT !.touched = (@ \/ v5.sinceDisconnect),
               !.clash = (@ \/ v5_OtherRunning(t))]

\* _configure_koolertron of appv5.py: the form's variables are read (which
\* may raise) and the first generator call is entered; then each generator
\* call returns and the next is entered on the handle found at that moment.
\* A raising call, or no handle, ends the step.
v5_configure_koolertron(t) ==
    /\ v5.thread[t].pc = "configure"
    /\ LET me == v5.thread[t]
       IN  IF me.at = "none"
           THEN \E varsOk \in BOOLEAN :
                  v5' = [v5 EXCEPT !.thread[t] =
                           IF varsOk /\ v5.kool THEN [me EXCEPT !.at = "call"]
                           ELSE IdleThread]
           ELSE \E ok \in BOOLEAN :
                  v5' = [V5Commanded(t) EXCEPT !.thread[t] =
                           IF ~ok THEN IdleThread
                           ELSE IF me.calls + 1 = NumKoolCmds
                           THEN [me EXCEPT !.pc = "keith_on", !.at = "none",
                                           !.calls = 0]
                           ELSE IF v5.kool THEN [me EXCEPT !.calls = @ + 1]
                           ELSE IdleThread]
    /\ UNCHANGED <<ctlVars, math>>

\* The output a step asks for before its capture: step2_action and
\* step3_action both call _keithley_set_output(True).
v5_StepOutput(step) == TRUE

\* _keithley_set_output(on) of appv5.py.  Before it: with a handle the
\* command is written; without one the Keithley is opened when an address is
\* given, else the function returns False.  In open_resource: the handle is
\* assigned when it returns, even if setting the timeout then raises.  In
\* write: the command is written unless the call raises.  The step goes on
\* to `after` whatever the function returns.
v5_keithley_set_output(t, on, after) ==
    LET me == v5.thread[t]
        done(last) == IF after = "idle" THEN IdleThread
                      ELSE [me EXCEPT !.pc = after, !.at = "none", !.i = 0,
                                      !.lastKeith = last]
    IN  CASE me.at = "none" ->
               \E kaddr \in BOOLEAN :
                 v5' = [v5 EXCEPT !.thread[t] =
                          IF v5.keith THEN [me EXCEPT !.at = "call"]
                          ELSE IF kaddr /\ v5.rm THEN [me EXCEPT !.at = "open"]
                          ELSE done(me.lastKeith)]
          [] me.at = "open" ->
               \E res \in {"open_raises", "timeout_raises", "ok"} :
                 v5' = [v5 EXCEPT
                          !.keith = (@ \/ res # "open_raises"),
                          !.touched = (@ \/ (v5.sinceDisconnect
                                             /\ res # "open_raises")),
                          !.thread[t] = IF res = "ok"
                                        THEN [me EXCEPT !.at = "call"]
                                        ELSE done(me.lastKeith)]
          [] me.at = "call" ->
               \E ok \in BOOLEAN :
                 v5' = [V5Commanded(t) EXCEPT !.thread[t] =
                          done(IF ok THEN KeithleyCmd(on) ELSE me.lastKeith)]

\* The output command before the capture.
v5_output_before(t) ==
    /\ v5.thread[t].pc = "keith_on"
    /\ v5_keithley_set_output(t, v5_StepOutput(v5.thread[t].step), "capture")
    /\ UNCHANGED <<ctlVars, math>>

\* _capture_and_save: a read is entered on the scope handle found after the
\* sleep, and returns a waveform or nothing.  Without a handle, with a read
\* that yields nothing, or after the NUM_AVERAGES-th read, the capture is
\* over and the step goes on to its final OFF.
v5_capture_read(t) ==
    /\ v5.thread[t].pc = "capture"
    /\ LET me == v5.thread[t]
           over == [me EXCEPT !.pc = "keith_off", !.at = "none"]
       IN  IF me.at = "none"
           THEN v5' = [v5 EXCEPT !.thread[t] =
                         IF v5.scope THEN [me EXCEPT !.at = "call"] ELSE over]
           ELSE \E ok \in BOOLEAN :
                  v5' = [V5Commanded(t) EXCEPT !.thread[t] =
                           IF ~ok THEN over
                           ELSE IF me.i + 1 = NUM_AVERAGES
                           THEN [over EXCEPT !.i = @ + 1]
                           ELSE [me EXCEPT !.i = @ + 1, !.at = "none"]]
    /\ UNCHANGED <<ctlVars, math>>

\* The final _keithley_set_output(False) of a step.
v5_output_after(t) ==
    /\ v5.thread[t].pc = "keith_off"
    /\ v5_keithley_set_output(t, FALSE, "idle")
    /\ UNCHANGED <<ctlVars, math>>

v5_StepThread(t) ==
    \/ v5_configure_koolertron(t)
    \/ v5_output_before(t)
    \/ v5_capture_read(t)
    \/ v5_output_after(t)

StepNext ==
    \/ v5_connect_devices
    \/ v5_connect_stage
    \/ v5_disconnect_devices
    \/ v5_disconnect_stage
    \/ \E t \in Threads : v5_step_start(t)
    \/ \E t \in Threads : v5_StepThread(t)

StepSpec == Init /\ [][StepNext]_vars

\* C26: Step 3 takes its reads with the output OFF - the last output
\* command it issued before its first read is not ON - and Step 2 takes its
\* reads with the output ON - the last one it issued is not OFF.
C26_Step3ReadsWithOutputOff ==
    \A t \in Threads :
        (v5.thread[t].pc \in {"capture", "keith_off"} /\ v5.thread[t].i > 0) =>
            /\ v5.thread[t].step = 3
                 => v5.thread[t].lastKeith # KEITHLEY_OUTPUT_ON
            /\ v5.thread[t].step = 2
                 => v5.thread[t].lastKeith # KEITHLEY_OUTPUT_OFF

\* C28: no step thread commands the generator, the scope or the Keithley
\* while another step thread is between its configuration and its final OFF.
C28_StepsDoNotOverlap == ~v5.clash

\* C29: from the end of disconnect_devices to the next connect_devices call
\* the scope, Keithley and generator handles are None, and no instrument is
\* opened or commanded.
C29_DisconnectedStaysDisconnected ==
    v5.sinceDisconnect =>
        /\ ~v5.scope /\ ~v5.keith /\ ~v5.kool
        /\ ~v5.touched

====
